---- MODULE Spec2Model ----
(***************************************************************************)
(* The two Lambda handlers of ecs-task-update.js: variant 1                *)
(* (ecs-task-update, located by service) and variant 2                     *)
(* (ecs-task-container-update, located by task family).  One behaviour is  *)
(* one invocation of exports.handler: the event, the promise chain the     *)
(* handler builds, the ECS requests it sends, the responses ECS gives and  *)
(* the invocations of the Lambda callback.                                 *)
(*                                                                         *)
(* JavaScript strings are TLA+ strings; every other JavaScript value is a  *)
(* record.  A key absent from the event reads as Undefined.                *)
(***************************************************************************)
EXTENDS Naturals, Sequences, FiniteSets, TLC

VARIABLES
    variant,    \* which of the two handlers is invoked: 1 or 2
    event,      \* the event passed to exports.handler
    pc,         \* "start" before exports.handler runs, "returned" once it returned
    p,          \* the DeployParams instance (NoParams before / without one)
    chain,      \* then-handlers of the promise chain that have not run yet
    promise,    \* state of the promise the head of the chain waits on
    calls,      \* the ECS requests sent so far, in order
    responses,  \* the ECS answers received so far, responses[i] answers calls[i]
    cbCalls     \* the invocations of the Lambda callback so far, in order

vars == <<variant, event, pc, p, chain, promise, calls, responses, cbCalls>>

----------------------------------------------------------------------------
(* Bounds of the model. *)

\* longest services list a describeServices response carries
MaxServices == 2
\* longest containerDefinitions list a described task carries
MaxContainers == 2

----------------------------------------------------------------------------
(* JavaScript values. *)

Undefined == "undefined"
JsNull == [type |-> "null"]
JsUndefined == [type |-> "undefined"]
JsArray(items) == [type |-> "Array", items |-> items]
\* result.services[0] of an empty list is undefined; reading .taskDefinition throws
TypeError == [type |-> "TypeError"]
\* whatever the Lambda callback throws, when it throws
CallbackError == [type |-> "CallbackError"]

\* JavaScript truthiness of an event value: absent and "" are falsy
Truthy(v) == v # Undefined /\ v # ""
\* a || b
Or(a, b) == IF Truthy(a) THEN a ELSE b

SeqsUpTo(S, n) == UNION {[1..k -> S] : k \in 0..n}

----------------------------------------------------------------------------
(* The inputs: events, and what ECS may answer. *)

Clusters == {Undefined, "", "prod"}
Services == {Undefined, "", "svc"}
TaskRefs == {Undefined, "", "app:3"}
Families == {Undefined, "", "app"}
ContainerNames == {Undefined, "", "web"}
ImageBases == {Undefined, "", "repo/app"}
ImageTags == {Undefined, "", "v2"}

Events1 == [cluster : Clusters, service : Services, taskDefinition : TaskRefs,
            containerName : ContainerNames, imageBase : ImageBases,
            imageTag : ImageTags]
Events2 == [cluster : Clusters, service : Services, taskFamily : Families,
            containerName : ContainerNames, imageBase : ImageBases,
            imageTag : ImageTags]

EcsErrors == {[type |-> "Error", code |-> "AccessDeniedException"],
              [type |-> "Error", code |-> "ThrottlingException"]}

\* what a service currently runs: not necessarily event.taskDefinition
ServiceTasks == {"app:3", "app:7"}
ServiceRecords == [serviceName : {"svc"}, taskDefinition : ServiceTasks]

Containers == [name : {"web", "db"}, image : {"repo/app:v1", "db:9"}]
TaskDefinitions ==
    [family : {"app"}, volumes : {"vols"}, taskRoleArn : {"role"},
     revision : {3}, taskDefinitionArn : {"arn:app:3"},
     containerDefinitions : SeqsUpTo(Containers, MaxContainers)]
NewArns == {"arn:app:4", "arn:app:8"}

NoParams == [type |-> "undefined"]

----------------------------------------------------------------------------
(* DeployParams. *)

requiredParams1 == <<"service", "taskDefinition", "containerName", "imageBase">>
requiredParams2 == <<"taskFamily", "containerName", "imageBase">>

\* faulty requiredErrors: stops at the first missing key
requiredErrorsFirstOnly(requiredParams, ev) ==
    LET missing == SelectSeq(requiredParams, LAMBDA it : ~Truthy(ev[it]))
    IN IF missing = <<>> THEN <<>> ELSE <<Head(missing) \o " is required.">>

\* requiredParams.map(it => event[it] ? null : it + " is required.").filter(it => it)
requiredErrors(requiredParams, ev) ==
    LET mapped == [i \in DOMAIN requiredParams |->
                     IF Truthy(ev[requiredParams[i]])
                     THEN ""    \* null: falsy, dropped by the filter
                     ELSE requiredParams[i] \o " is required."]
    IN SelectSeq(mapped, LAMBDA it : it # "")

\* faulty DeployParams of variant 1: imageTag is taken as it comes, no default
DeployParams1NoTagDefault(ev) ==
    LET errors == requiredErrors(requiredParams1, ev) IN
    IF Len(errors) > 0
    THEN [threw |-> TRUE, error |-> JsArray(errors), this |-> NoParams]
    ELSE [threw |-> FALSE, error |-> JsUndefined,
          this |-> [cluster |-> Or(ev.cluster, "default"),
                    service |-> ev.service,
                    taskDefinition |-> ev.taskDefinition,
                    containerName |-> ev.containerName,
                    imageBase |-> ev.imageBase,
                    imageTag |-> ev.imageTag,
                    image |-> ev.imageBase \o ":" \o ev.imageTag]]

\* new DeployParams(event) of variant 1: what it throws, or the instance
DeployParams1(ev) ==
    LET errors == requiredErrors(requiredParams1, ev) IN
    IF Len(errors) > 0
    THEN [threw |-> TRUE, error |-> JsArray(errors), this |-> NoParams]
    ELSE [threw |-> FALSE, error |-> JsUndefined,
          this |-> [cluster |-> Or(ev.cluster, "default"),
                    service |-> ev.service,
                    taskDefinition |-> ev.taskDefinition,
                    containerName |-> ev.containerName,
                    imageBase |-> ev.imageBase,
                    imageTag |-> Or(ev.imageTag, "latest"),
                    image |-> ev.imageBase \o ":" \o Or(ev.imageTag, "latest")]]

\* faulty DeployParams of variant 2: no check of cluster against service
DeployParams2NoCrossCheck(ev) ==
    LET errors == requiredErrors(requiredParams2, ev) IN
    IF Len(errors) > 0
    THEN [threw |-> TRUE, error |-> JsArray(errors), this |-> NoParams]
    ELSE [threw |-> FALSE, error |-> JsUndefined,
          this |-> [imageBase |-> ev.imageBase,
                    imageTag |-> Or(ev.imageTag, "latest"),
                    image |-> ev.imageBase \o ":" \o Or(ev.imageTag, "latest"),
                    taskFamily |-> ev.taskFamily,
                    containerName |-> ev.containerName,
                    cluster |-> Or(ev.cluster, "default"),
                    service |-> ev.service]]

\* new DeployParams(event) of variant 2
DeployParams2(ev) ==
    LET errors == requiredErrors(requiredParams2, ev) IN
    IF Len(errors) > 0
    THEN [threw |-> TRUE, error |-> JsArray(errors), this |-> NoParams]
    ELSE IF Truthy(ev.cluster) /\ ~Truthy(ev.service)
    THEN [threw |-> TRUE,
          error |-> JsArray(<<"service is required when cluster is specified">>),
          this |-> NoParams]
    ELSE [threw |-> FALSE, error |-> JsUndefined,
          this |-> [imageBase |-> ev.imageBase,
                    imageTag |-> Or(ev.imageTag, "latest"),
                    image |-> ev.imageBase \o ":" \o Or(ev.imageTag, "latest"),
                    taskFamily |-> ev.taskFamily,
                    containerName |-> ev.containerName,
                    cluster |-> Or(ev.cluster, "default"),
                    service |-> ev.service]]

----------------------------------------------------------------------------
(* The requests the handlers send to ECS. *)

\* describeService(p): ecs.describeServices({cluster, services: [p.service]})
describeServiceParams(q) == [cluster |-> q.cluster, services |-> <<q.service>>]

\* faulty describeTask of variant 1: the task definition the event names
describeTaskParams1FromEvent(q, result) == [taskDefinition |-> q.taskDefinition]

\* describeTask(p, result) of variant 1: the first service's task definition
describeTaskParams1(q, result) ==
    [taskDefinition |-> result.services[1].taskDefinition]

\* describeTask(p) of variant 2: the task family of the event
describeTaskParams2(q) == [taskDefinition |-> q.taskFamily]

\* faulty containerTransformer: the name is not compared
containerTransformerUnconditional(toMatch, newImage, container) ==
    [container EXCEPT !.image = newImage]

\* containerTransformer(toMatch, newImage)(container).  The code assigns
\* container.image in place and returns the container; the described task is
\* not read again after the map, so only the returned value is modelled.
containerTransformer(toMatch, newImage, container) ==
    IF container.name = toMatch
    THEN [container EXCEPT !.image = newImage]
    ELSE container

\* updateTask(p, result): ecs.registerTaskDefinition of the rewritten task
updateTaskParams(q, result) ==
    LET task == result.taskDefinition IN
    [family |-> task.family,
     volumes |-> task.volumes,
     taskRoleArn |-> task.taskRoleArn,
     containerDefinitions |->
        [i \in DOMAIN task.containerDefinitions |->
            containerTransformer(q.containerName, q.image,
                                 task.containerDefinitions[i])]]

\* updateService(p, result): ecs.updateService to the new revision
updateServiceParams(q, result) ==
    LET task == result.taskDefinition IN
    [cluster |-> q.cluster,
     service |-> q.service,
     taskDefinition |-> task.taskDefinitionArn]

Request(op, params) == [op |-> op, params |-> params]

----------------------------------------------------------------------------
(* The promise chains. *)

\* promised(callback, promise): promise.then(callback.bind(null, null)).catch(callback)
promised == <<"callback", "catch">>

\* variant 1: describeService(p).then(describeTask).then(updateTask).then(updateService)
handlerChain1 == <<"describeTask", "updateTask", "updateService">> \o promised

\* faulty buildPromise: updateService is chained whatever p.service is
buildPromiseAlwaysService(q) == <<"updateTask", "updateService">>

\* variant 2: describeTask(p).then(updateTask), and then(updateService) with a service
buildPromise(q) ==
    LET taskUpdate == <<"updateTask">> IN
    IF ~Truthy(q.service) THEN taskUpdate
    ELSE taskUpdate \o <<"updateService">>

handlerChain2(q) == buildPromise(q) \o promised

Pending == [state |-> "pending", value |-> JsUndefined]
Fulfilled(v) == [state |-> "fulfilled", value |-> v]
Rejected(e) == [state |-> "rejected", value |-> e]

\* the then-handler `name` is the next of the chain and its promise is fulfilled
Runs(name) ==
    /\ pc = "returned"
    /\ chain # <<>>
    /\ Head(chain) = name
    /\ promise.state = "fulfilled"

\* the invocation is over: the handler returned and no handler of the chain is left
Done == pc = "returned" /\ chain = <<>>

----------------------------------------------------------------------------
(* What ECS answers to a request, when it succeeds. *)

EcsData(call) ==
    CASE call.op = "describeServices" ->
           {[services |-> s] : s \in SeqsUpTo(ServiceRecords, MaxServices)}
      [] call.op = "describeTaskDefinition" ->
           {[taskDefinition |-> t] : t \in TaskDefinitions}
      [] call.op = "registerTaskDefinition" ->
           {[taskDefinition |->
               [family |-> call.params.family,
                volumes |-> call.params.volumes,
                taskRoleArn |-> call.params.taskRoleArn,
                revision |-> 4,
                taskDefinitionArn |-> a,
                containerDefinitions |-> call.params.containerDefinitions]]
            : a \in NewArns}
      [] call.op = "updateService" ->
           {[service |-> [serviceName |-> call.params.service,
                          cluster |-> call.params.cluster,
                          taskDefinition |-> call.params.taskDefinition]]}

----------------------------------------------------------------------------
(* The state machine of one invocation. *)

Init ==
    /\ variant \in {1, 2}
    /\ event \in (IF variant = 1 THEN Events1 ELSE Events2)
    /\ pc = "start"
    /\ p = NoParams
    /\ chain = <<>>
    /\ promise = Pending
    /\ calls = <<>>
    /\ responses = <<>>
    /\ cbCalls = <<>>

\* exports.handler of variant 1
handler1 ==
    /\ variant = 1
    /\ pc = "start"
    /\ pc' = "returned"
    /\ LET r == DeployParams1(event) IN
       IF r.threw
       THEN /\ cbCalls' = Append(cbCalls, [err |-> r.error, data |-> JsUndefined])
            /\ UNCHANGED <<p, chain, promise, calls>>
       ELSE /\ p' = r.this
            /\ calls' = Append(calls, Request("describeServices",
                                              describeServiceParams(r.this)))
            /\ promise' = Pending
            /\ chain' = handlerChain1
            /\ UNCHANGED cbCalls
    /\ UNCHANGED <<variant, event, responses>>

\* exports.handler of variant 2
handler2 ==
    /\ variant = 2
    /\ pc = "start"
    /\ pc' = "returned"
    /\ LET r == DeployParams2(event) IN
       IF r.threw
       THEN /\ cbCalls' = Append(cbCalls, [err |-> r.error, data |-> JsUndefined])
            /\ UNCHANGED <<p, chain, promise, calls>>
       ELSE /\ p' = r.this
            /\ calls' = Append(calls, Request("describeTaskDefinition",
                                              describeTaskParams2(r.this)))
            /\ promise' = Pending
            /\ chain' = handlerChain2(r.this)
            /\ UNCHANGED cbCalls
    /\ UNCHANGED <<variant, event, responses>>

\* ECS answers the request in flight with data: its promise() fulfils
ecsResolve ==
    /\ pc = "returned"
    /\ chain # <<>>
    /\ promise.state = "pending"
    /\ \E data \in EcsData(calls[Len(calls)]) :
          /\ responses' = Append(responses, [err |-> JsNull, data |-> data])
          /\ promise' = Fulfilled(data)
    /\ UNCHANGED <<variant, event, pc, p, chain, calls, cbCalls>>

\* ECS answers the request in flight with an error: its promise() rejects
ecsReject ==
    /\ pc = "returned"
    /\ chain # <<>>
    /\ promise.state = "pending"
    /\ \E e \in EcsErrors :
          /\ responses' = Append(responses, [err |-> e, data |-> JsUndefined])
          /\ promise' = Rejected(e)
    /\ UNCHANGED <<variant, event, pc, p, chain, calls, cbCalls>>

\* faulty describeTask of variant 1: without a service in the answer it falls
\* back on the task definition of the event
describeTask1FallBack ==
    /\ Runs("describeTask")
    /\ chain' = Tail(chain)
    /\ calls' = Append(calls, Request("describeTaskDefinition",
                   IF Len(promise.value.services) = 0
                   THEN [taskDefinition |-> p.taskDefinition]
                   ELSE describeTaskParams1(p, promise.value)))
    /\ promise' = Pending
    /\ UNCHANGED <<variant, event, pc, p, responses, cbCalls>>

\* .then(describeTask.bind(null, p)) of variant 1
describeTask1 ==
    /\ Runs("describeTask")
    /\ chain' = Tail(chain)
    /\ IF Len(promise.value.services) = 0
       THEN \* result.services[0] is undefined: the handler throws
            /\ promise' = Rejected(TypeError)
            /\ UNCHANGED calls
       ELSE /\ calls' = Append(calls, Request("describeTaskDefinition",
                                   describeTaskParams1(p, promise.value)))
            /\ promise' = Pending
    /\ UNCHANGED <<variant, event, pc, p, responses, cbCalls>>

\* .then(updateTask.bind(null, p)), both variants
updateTask ==
    /\ Runs("updateTask")
    /\ chain' = Tail(chain)
    /\ calls' = Append(calls, Request("registerTaskDefinition",
                                      updateTaskParams(p, promise.value)))
    /\ promise' = Pending
    /\ UNCHANGED <<variant, event, pc, p, responses, cbCalls>>

\* .then(updateService.bind(null, p))
updateService ==
    /\ Runs("updateService")
    /\ chain' = Tail(chain)
    /\ calls' = Append(calls, Request("updateService",
                                      updateServiceParams(p, promise.value)))
    /\ promise' = Pending
    /\ UNCHANGED <<variant, event, pc, p, responses, cbCalls>>

\* .then(callback.bind(null, null)): the callback gets (null, value); when it
\* throws, the promise .catch(callback) hangs on rejects with what it threw
thenCallback ==
    /\ Runs("callback")
    /\ cbCalls' = Append(cbCalls, [err |-> JsNull, data |-> promise.value])
    /\ \E throws \in BOOLEAN :
          IF throws
          THEN /\ promise' = Rejected(CallbackError)
               /\ chain' = Tail(chain)
          ELSE /\ promise' = Fulfilled(JsUndefined)
               /\ chain' = <<>>
    /\ UNCHANGED <<variant, event, pc, p, calls, responses>>

\* faulty catch: the callback gets a new error in place of the rejection
catchCallbackWrapped ==
    /\ pc = "returned"
    /\ chain # <<>>
    /\ promise.state = "rejected"
    /\ cbCalls' = Append(cbCalls, [err |-> [type |-> "Error", code |-> "DeployFailed"],
                                   data |-> JsUndefined])
    /\ chain' = <<>>
    /\ UNCHANGED <<variant, event, pc, p, promise, calls, responses>>

\* .catch(callback): a rejection passes every then-handler left and reaches
\* the callback as its only argument
catchCallback ==
    /\ pc = "returned"
    /\ chain # <<>>
    /\ promise.state = "rejected"
    /\ cbCalls' = Append(cbCalls, [err |-> promise.value, data |-> JsUndefined])
    /\ chain' = <<>>
    /\ UNCHANGED <<variant, event, pc, p, promise, calls, responses>>

Next ==
    \/ handler1
    \/ handler2
    \/ ecsResolve
    \/ ecsReject
    \/ describeTask1
    \/ updateTask
    \/ updateService
    \/ thenCallback
    \/ catchCallback

Spec == Init /\ [][Next]_vars

----------------------------------------------------------------------------
(* Vocabulary of the properties, stated on the event and on the history    *)
(* (calls, responses, cbCalls) rather than on the operators above.         *)

Ops == [i \in DOMAIN calls |-> calls[i].op]

IsPrefix(s, t) == Len(s) <= Len(t) /\ \A i \in DOMAIN s : s[i] = t[i]

Falsy(v) == v \in {Undefined, ""}

MsgIfMissing(key) == IF Falsy(event[key]) THEN <<key \o " is required.">> ELSE <<>>

\* the messages of the required keys the event lacks, in required-key order
ExpectedRequired ==
    IF variant = 1
    THEN MsgIfMissing("service") \o MsgIfMissing("taskDefinition")
         \o MsgIfMissing("containerName") \o MsgIfMissing("imageBase")
    ELSE MsgIfMissing("taskFamily") \o MsgIfMissing("containerName")
         \o MsgIfMissing("imageBase")

MissingRequired == ExpectedRequired # <<>>

\* every message "<key> is required." of a required key of either variant
RequiredMessages ==
    {k \o " is required." :
        k \in {"service", "taskDefinition", "taskFamily", "containerName",
               "imageBase"}}

ClusterWithoutService == ~Falsy(event.cluster) /\ Falsy(event.service)

\* the event fails parameter validation
InvalidEvent == MissingRequired \/ (variant = 2 /\ ClusterWithoutService)

ExpectedCluster == IF Falsy(event.cluster) THEN "default" ELSE event.cluster
ExpectedImage ==
    event.imageBase \o ":"
        \o (IF Falsy(event.imageTag) THEN "latest" ELSE event.imageTag)

\* ECS answered request i with data
Succeeded(i) == i \in DOMAIN responses /\ responses[i].err = JsNull
Failed(i) == i \in DOMAIN responses /\ responses[i].err # JsNull
AllSucceeded == \A i \in DOMAIN responses : responses[i].err = JsNull

\* index of the registerTaskDefinition request in calls, once it is sent
RegisterAt == IF variant = 1 THEN 3 ELSE 2
Registered == Len(calls) >= RegisterAt
\* the container list updateTask read, and the one it sent
ListIn == responses[RegisterAt - 1].data.taskDefinition.containerDefinitions
ListOut == calls[RegisterAt].params.containerDefinitions
Matches(cs, name) == {i \in DOMAIN cs : cs[i].name = name}

Flow1 == <<"describeServices", "describeTaskDefinition",
           "registerTaskDefinition", "updateService">>
Flow2 == <<"describeTaskDefinition", "registerTaskDefinition", "updateService">>

----------------------------------------------------------------------------
C2_UpdateServiceIffService ==
    (variant = 2 /\ ~InvalidEvent) =>
      /\ IsPrefix(Ops, Flow2)
      /\ (\E i \in DOMAIN calls : calls[i].op = "updateService") =>
            ~Falsy(event.service) /\ Succeeded(2)
      /\ (Done /\ ~Falsy(event.service) /\ Succeeded(2)) => Ops = Flow2
      /\ Falsy(event.service) =>
            /\ IsPrefix(Ops, SubSeq(Flow2, 1, 2))
            /\ (Done /\ AllSucceeded) =>
                  /\ Ops = SubSeq(Flow2, 1, 2)
                  /\ Len(cbCalls) >= 1
                  /\ cbCalls[1] = [err |-> JsNull, data |-> responses[2].data]

\* a finished variant-2 run without a service: two requests, and the callback
\* holds the registered task
C2_Witness ==
    /\ variant = 2
    /\ Done
    /\ event.service = ""
    /\ Ops = <<"describeTaskDefinition", "registerTaskDefinition">>
    /\ cbCalls = <<[err |-> JsNull, data |-> responses[2].data]>>

(* C3: both variants.  For an event that fails validation no ECS request   *)
(* is ever sent, and once the handler has returned the callback has been   *)
(* invoked with the (non-empty) list of validation errors and nothing else.*)
C3_InvalidEventNoEcsCall ==
    InvalidEvent =>
      /\ calls = <<>>
      /\ responses = <<>>
      /\ pc = "returned" =>
            /\ Len(cbCalls) = 1
            /\ cbCalls[1].err.type = "Array"
            /\ Len(cbCalls[1].err.items) > 0
            /\ cbCalls[1].data = JsUndefined

\* variant 2 has returned from an event whose only fault is a cluster
\* without a service
C3_Witness ==
    /\ variant = 2
    /\ pc = "returned"
    /\ ~MissingRequired
    /\ ClusterWithoutService
    /\ Len(cbCalls) = 1
    /\ calls = <<>>

(* C4: both variants.  When ECS answers a request with an error, that      *)
(* request stays the last one sent (no later operation, no retry, no       *)
(* compensation), the callback is not invoked with a result, and at the    *)
(* end of the invocation the callback has been invoked once, with that     *)
(* same error as its error argument.                                       *)
C4_EcsErrorAbortsVerbatim ==
    \A i \in DOMAIN responses :
       responses[i].err # JsNull =>
         /\ Len(calls) = i
         /\ Len(responses) = i
         /\ \A k \in DOMAIN cbCalls :
               cbCalls[k] = [err |-> responses[i].err, data |-> JsUndefined]
         /\ Done => Len(cbCalls) = 1

\* updateService failed after a revision was registered, and the invocation
\* ended with that error
C4_Witness ==
    /\ Done
    /\ Len(calls) >= 2
    /\ calls[Len(calls)].op = "updateService"
    /\ Succeeded(Len(calls) - 1)
    /\ Failed(Len(calls))
    /\ cbCalls = <<[err |-> responses[Len(calls)].err, data |-> JsUndefined]>>

(* C5: both variants.  For an event lacking a required key, the list the   *)
(* callback gets holds exactly the message "<key> is required." of each    *)
(* required key that is absent or falsy, in required-key order, and no     *)
(* message of a key that is present and truthy.                            *)
C5_AllMissingFieldsReported ==
    (MissingRequired /\ pc = "returned") =>
      /\ Len(cbCalls) = 1
      /\ cbCalls[1].err.type = "Array"
      /\ SelectSeq(cbCalls[1].err.items, LAMBDA m : m \in RequiredMessages)
            = ExpectedRequired

\* two of the four required keys of variant 1 are missing and reported
C5_Witness ==
    /\ variant = 1
    /\ pc = "returned"
    /\ Len(cbCalls) = 1
    /\ cbCalls[1].err =
         JsArray(<<"service is required.", "imageBase is required.">>)

(* C6: variant 2.  An event with cluster set and service unset fails       *)
(* validation with the error "service is required when cluster is          *)
(* specified", and no ECS request is sent for it.                          *)
C6_ClusterNeedsServiceError ==
    (variant = 2 /\ ClusterWithoutService) =>
      /\ calls = <<>>
      /\ pc = "returned" =>
            /\ Len(cbCalls) = 1
            /\ cbCalls[1].err.type = "Array"
            /\ \E k \in DOMAIN cbCalls[1].err.items :
                  cbCalls[1].err.items[k]
                     = "service is required when cluster is specified"

(* C7: both variants.  The container list sent to registerTaskDefinition   *)
(* has the length and the order of names of the list of the described      *)
(* task; with exactly one container named p.containerName only that        *)
(* container differs, by its image, which is p.image; with no container of *)
(* that name the list sent is the list read.                               *)
C7_ContainerRewrite ==
    Registered =>
      /\ Len(ListOut) = Len(ListIn)
      /\ \A i \in DOMAIN ListIn : ListOut[i].name = ListIn[i].name
      /\ Cardinality(Matches(ListIn, p.containerName)) = 1 =>
            \A i \in DOMAIN ListIn :
               ListOut[i] = IF ListIn[i].name = p.containerName
                            THEN [ListIn[i] EXCEPT !.image = p.image]
                            ELSE ListIn[i]
      /\ Matches(ListIn, p.containerName) = {} => ListOut = ListIn

\* a two-container task whose second container is the only one named as
\* the target: it alone was rewritten
C7_Witness ==
    /\ Registered
    /\ Len(ListIn) = 2
    /\ Matches(ListIn, p.containerName) = {2}
    /\ ListOut[1] = ListIn[1]
    /\ ListOut[2].image # ListIn[2].image
    /\ ListOut[2].image = p.image

(* C8: both variants, valid event.  The image of DeployParams, and the     *)
(* image written into every container named containerName, is              *)
(* imageBase:imageTag with imageTag "latest" when the event has none; the  *)
(* cluster of DeployParams and of every ECS request that names a cluster   *)
(* is the event's cluster, "default" when the event has none.              *)
C8_ImageAndClusterDefaults ==
    (~InvalidEvent /\ pc = "returned") =>
      /\ p.image = ExpectedImage
      /\ p.cluster = ExpectedCluster
      /\ Registered =>
            \A i \in Matches(ListOut, event.containerName) :
               ListOut[i].image = ExpectedImage
      /\ \A i \in DOMAIN calls :
            calls[i].op \in {"describeServices", "updateService"} =>
               calls[i].params.cluster = ExpectedCluster

\* an event without imageTag and without cluster: "latest" and "default"
\* reached ECS
C8_Witness ==
    /\ Registered
    /\ event.imageTag = Undefined
    /\ event.cluster = Undefined
    /\ \E i \in DOMAIN ListOut : ListOut[i].image = "repo/app:latest"
    /\ \E i \in DOMAIN calls :
          /\ calls[i].op = "updateService"
          /\ calls[i].params.cluster = "default"

(* C9: variant 1.  When describeServices succeeds with an empty services   *)
(* list, describeServices stays the only request of the invocation, the    *)
(* callback is never invoked with a success result, and at the end it has  *)
(* been invoked with an error.                                             *)
C9_NoServiceAborts ==
    (variant = 1 /\ Succeeded(1) /\ responses[1].data.services = <<>>) =>
      /\ Ops = <<"describeServices">>
      /\ \A k \in DOMAIN cbCalls :
            cbCalls[k].err # JsNull /\ cbCalls[k].data = JsUndefined
      /\ Done => Len(cbCalls) = 1

\* the invocation ended on an empty services list
C9_Witness ==
    /\ variant = 1
    /\ Done
    /\ Succeeded(1)
    /\ responses[1].data.services = <<>>
    /\ cbCalls = <<[err |-> TypeError, data |-> JsUndefined]>>

(* C10: both variants.  The callback is invoked at most once, and exactly  *)
(* once by the end of the invocation, whether or not it throws.            *)
C10_CallbackExactlyOnce ==
    /\ Len(cbCalls) <= 1
    /\ Done => Len(cbCalls) = 1

====
